---- MODULE Spec2Model ----
(***************************************************************************)
(* Tone.Player (src/Tone/source/Player.js): an audio-file player with      *)
(* load, setBuffer, start, loop, stop, setPlaybackRate and dispose.        *)
(*                                                                         *)
(* The player's fields are the record `player`.  The audio engine's        *)
(* AudioBufferSourceNodes are the sequence `units` (a unit is designated   *)
(* by its index, 0 is the null reference).  The XMLHttpRequests and        *)
(* decodes in flight are the sequence `loads`.  Every method is an         *)
(* operator from a world [p, u, l, n, c, threw] to the world after the     *)
(* call, so that a method calling another (loop -> start, decode ->        *)
(* setBuffer) is the composition the code performs.                        *)
(***************************************************************************)
EXTENDS Integers, Sequences, FiniteSets

VARIABLES
    player,   \* the Tone.Player object's fields
    units,    \* every AudioBufferSourceNode created by start, in creation order
    loads,    \* the requests in flight, in the order of their load calls
    issued,   \* the number of load calls made so far
    called,   \* the number of times a load callback was invoked
    reported, \* the number of load failures handed to the caller
    threw,    \* TRUE iff the most recent method call raised a TypeError
    last      \* the most recent step: [op, a, b, pre], a its time (stop),
              \* callback (load: 1 iff supplied) or unit (ended), a and b its
              \* offset and duration (start), rate and rampTime
              \* (setPlaybackRate) or request and buffer held before
              \* (decoded), pre the state before it

vars == <<player, units, loads, issued, called, reported, threw, last>>

----------------------------------------------------------------------------
(* Bounds of the model *)

MaxUnits == 2
MaxLoads == 2
MaxEpisodes == 3

----------------------------------------------------------------------------
(* Values *)

Null == 0
Undef == -1
Now == 0
DefaultPlaybackRate == 1

STOPPED == "stopped"
STARTED == "started"

Buffers == {1, 2}
OneBuffer == {1}
BufferDuration(b) == b + 1

Rates == {1, 2}
TimeArgs == {Undef, 0, 1}
RampArgs == {Undef, 1}
OffsetArgs == {Undef, 0, 1}
DurationArgs == {Undef, 1}
LoopStartArgs == {Undef, 1}
LoopEndArgs == {Undef, 2}

----------------------------------------------------------------------------
(* Collaborators of the base class *)

defaultArg(given, fallback) == IF given = Undef THEN fallback ELSE given

toSeconds(time) == IF time = Undef THEN Now ELSE time

\* JavaScript's !x for the values a time argument takes
falsy(x) == x = Undef \/ x = 0

\* Tone.Source.call(this): the state and the output node of every source
SourceInit == [state |-> STOPPED, output |-> "node"]

\* context.createBufferSource(): a fresh, unscheduled, unconnected node
createBufferSource ==
    [buffer |-> Null, loop |-> FALSE, loopStart |-> 0, loopEnd |-> 0,
     playbackRate |-> 1, offset |-> Undef, duration |-> Undef,
     started |-> FALSE, stopTime |-> Undef, connected |-> FALSE,
     handler |-> FALSE, ended |-> FALSE, notified |-> 0]

----------------------------------------------------------------------------
(* The methods *)

setBuffer(w, buffer) ==
    [w EXCEPT !.p._buffer = buffer, !.p.duration = BufferDuration(buffer)]

\* s without its r-th element
Remove(s, r) == SubSeq(s, 1, r - 1) \o SubSeq(s, r + 1, Len(s))

\* load without the check for a held buffer
loadAlways(w, url, callback) ==
    [w EXCEPT !.n = @ + 1,
              !.l = Append(@, [url |-> url, callback |-> callback,
                               phase |-> "sent"])]

load(w, url, callback) ==
    IF w.p._buffer = Null
    THEN [w EXCEPT !.n = @ + 1,
                   !.l = Append(@, [url |-> url, callback |-> callback,
                                    phase |-> "sent"])]
    ELSE [w EXCEPT !.n = @ + 1,
                   !.c = IF callback THEN @ + 1 ELSE @]

\* request.onload: the bytes arrived, decodeAudioData is issued
onload(w, r) == [w EXCEPT !.l[r].phase = "decoding"]

\* a decode callback that keeps a buffer set in the meantime
decodedUnlessHeld(w, r) ==
    LET s == IF w.p._buffer = Null THEN setBuffer(w, w.l[r].url) ELSE w
    IN  [s EXCEPT !.l = Remove(@, r),
                  !.c = IF w.l[r].callback THEN @ + 1 ELSE @]

\* the success callback of decodeAudioData
decoded(w, r) ==
    LET s == setBuffer(w, w.l[r].url)
    IN  [s EXCEPT !.l = Remove(@, r),
                  !.c = IF w.l[r].callback THEN @ + 1 ELSE @]

\* the request fails: load registered no onerror handler on it, so the
\* request ends and nothing runs
onerror(w, r) == [w EXCEPT !.l = Remove(@, r)]

\* the decode fails: load passed decodeAudioData no error callback, so the
\* decode ends and nothing runs
decodeError(w, r) == [w EXCEPT !.l = Remove(@, r)]

\* a source whose default duration is the whole buffer, whatever the offset
makeSourceWholeBuffer(w, offset, duration) ==
    LET off == defaultArg(offset, 0)
        dur == defaultArg(duration, BufferDuration(w.p._buffer))
        unit == [createBufferSource EXCEPT
                    !.buffer = w.p._buffer,
                    !.loop = FALSE,
                    !.playbackRate = w.p._playbackRate,
                    !.started = TRUE,
                    !.offset = toSeconds(off),
                    !.duration = toSeconds(dur),
                    !.handler = TRUE,
                    !.connected = TRUE]
    IN  [w EXCEPT !.p.state = STARTED,
                  !.p._source = Len(w.u) + 1,
                  !.u = Append(@, unit)]

\* the body of start once the call is accepted: "make the source"
makeSource(w, offset, duration) ==
    LET off == defaultArg(offset, 0)
        dur == defaultArg(duration, BufferDuration(w.p._buffer) - off)
        unit == [createBufferSource EXCEPT
                    !.buffer = w.p._buffer,
                    !.loop = FALSE,
                    !.playbackRate = w.p._playbackRate,
                    !.started = TRUE,
                    !.offset = toSeconds(off),
                    !.duration = toSeconds(dur),
                    !.handler = TRUE,
                    !.connected = TRUE]
    IN  [w EXCEPT !.p.state = STARTED,
                  !.p._source = Len(w.u) + 1,
                  !.u = Append(@, unit)]

\* start without the STOPPED/retrigger gate
startUngated(w, offset, duration) ==
    IF w.p._buffer # Null THEN makeSource(w, offset, duration) ELSE w

\* start that stops and disconnects the unit it replaces
startStopsOld(w, offset, duration) ==
    IF w.p.state = STOPPED \/ w.p.retrigger
    THEN IF w.p._buffer # Null
         THEN LET s == IF w.p._source # Null
                       THEN [w EXCEPT !.u[w.p._source].stopTime = Now,
                                      !.u[w.p._source].connected = FALSE]
                       ELSE w
              IN  makeSource(s, offset, duration)
         ELSE w
    ELSE w

start(w, offset, duration) ==
    IF w.p.state = STOPPED \/ w.p.retrigger
    THEN IF w.p._buffer # Null
         THEN makeSource(w, offset, duration)
         ELSE w
    ELSE w

\* loop without the check for a held buffer
loopUnchecked(w, loopStart, loopEnd, offset, duration) ==
    LET ls  == defaultArg(loopStart, 0)
        le  == defaultArg(loopEnd, BufferDuration(w.p._buffer))
        off == defaultArg(offset, ls)
        dur == defaultArg(duration, BufferDuration(w.p._buffer) - off)
        s   == start(w, off, dur)
    IN  IF s.p._source = Null
        THEN [s EXCEPT !.threw = TRUE]
        ELSE [s EXCEPT !.u[s.p._source].loop = TRUE,
                       !.u[s.p._source].loopStart = toSeconds(ls),
                       !.u[s.p._source].loopEnd = toSeconds(le)]

loop(w, loopStart, loopEnd, offset, duration) ==
    IF w.p._buffer # Null
    THEN LET ls  == defaultArg(loopStart, 0)
             le  == defaultArg(loopEnd, BufferDuration(w.p._buffer))
             off == defaultArg(offset, ls)
             dur == defaultArg(duration, BufferDuration(w.p._buffer) - off)
             s   == start(w, off, dur)
         IN  IF s.p._source = Null
             THEN [s EXCEPT !.threw = TRUE]
             ELSE [s EXCEPT !.u[s.p._source].loop = TRUE,
                            !.u[s.p._source].loopStart = toSeconds(ls),
                            !.u[s.p._source].loopEnd = toSeconds(le)]
    ELSE w

\* stop that leaves the state to the ended event
stopKeepsState(w, time) ==
    IF w.p.state = STARTED
    THEN IF w.p._buffer # Null /\ w.p._source # Null
         THEN [w EXCEPT !.u[w.p._source].stopTime = toSeconds(time)]
         ELSE w
    ELSE w

stop(w, time) ==
    IF w.p.state = STARTED
    THEN IF w.p._buffer # Null /\ w.p._source # Null
         THEN LET s == IF falsy(time) THEN [w EXCEPT !.p.state = STOPPED] ELSE w
              IN  [s EXCEPT !.u[w.p._source].stopTime = toSeconds(time)]
         ELSE w
    ELSE w

setPlaybackRate(w, rate, rampTime) ==
    LET s == [w EXCEPT !.p._playbackRate = rate]
    IN  IF s.p._source # Null
        THEN IF ~falsy(rampTime)
             THEN \* exponentialRampToValueAtTime: the value the ramp reaches
                  [s EXCEPT !.u[s.p._source].playbackRate = rate]
             ELSE [s EXCEPT !.u[s.p._source].playbackRate = rampTime]
        ELSE s

\* a handler that returns early when the state is already STOPPED
onendedOnlyWhenStarted(w, i) ==
    IF w.p.state = STOPPED
    THEN w
    ELSE [w EXCEPT !.p.state = STOPPED, !.u[i].notified = @ + 1]

\* a handler that notifies the observer and leaves the state
onendedKeepsState(w, i) ==
    [w EXCEPT !.u[i].notified = @ + 1]

\* the handler start registers on a unit, run for unit i's ended event
_onended(w, i) ==
    [w EXCEPT !.p.state = STOPPED, !.u[i].notified = @ + 1]

\* a handler that invokes the observer before it sets the state
observerFirst(w, i) ==
    LET t == [w EXCEPT !.u[i].notified = @ + 1]
        r == start(t, Undef, Undef)
    IN  [r EXCEPT !.p.state = STOPPED]

\* the handler run for unit i's ended event on a player whose onended was
\* set to a function that calls start(): the state is set, then the observer
\* is invoked and runs start
onendedRestarts(w, i) ==
    LET s == [w EXCEPT !.p.state = STOPPED]
        t == [s EXCEPT !.u[i].notified = @ + 1]
    IN  start(t, Undef, Undef)

dispose(w) ==
    LET a == IF w.p._source # Null
             THEN [w EXCEPT !.u[w.p._source].connected = FALSE,
                            !.p._source = Null]
             ELSE w
        b == [a EXCEPT !.p._buffer = Null]
    IN  IF b.p.output = "null"
        THEN [b EXCEPT !.threw = TRUE]
        ELSE [b EXCEPT !.p.output = "null"]

\* new Tone.Player(url, onload)
Player(url, callback) ==
    LET w == [p |-> [state |-> SourceInit.state, output |-> SourceInit.output,
                     _source |-> Null, _buffer |-> Null, duration |-> 0,
                     _playbackRate |-> DefaultPlaybackRate, retrigger |-> FALSE],
              u |-> <<>>, l |-> <<>>, n |-> 0, c |-> 0, e |-> 0,
              threw |-> FALSE]
    IN  IF url # Undef THEN load(w, url, callback) ELSE w

----------------------------------------------------------------------------
(* The state machine.                                                      *)
(*                                                                         *)
(* The methods read no argument value to decide what they do, only whether *)
(* an argument, a buffer or a unit is there, so each specification draws   *)
(* the arguments of its concern from the full sets and fixes the others:   *)
(*   Spec      the transport (start, loop, stop, retrigger, ended events,  *)
(*             dispose) over one buffer, set by setBuffer or by the load   *)
(*             the constructor issues, every scheduling argument omitted;  *)
(*   LoadSpec  the acquisition (load, setBuffer, request and decode        *)
(*             completions, dispose) over both buffers;                    *)
(*   SchedSpec the scheduling arguments of start, loop and                 *)
(*             setPlaybackRate over both buffers, for one episode;         *)
(*   LiveSpec  the transport with retrigger left false, under the engine's *)
(*             delivery of every ended event.                              *)
(*   FreedSpec the transport of a player that loads nothing, start and     *)
(*             loop being called on it after dispose as well;              *)
(*   EpisodeSpec  up to MaxEpisodes units of a player whose retrigger is   *)
(*             left false;                                                 *)
(*   ObserverSpec  the same, some ended events being observed by an        *)
(*             onended that calls start.                                   *)
(* In the other specifications a caller calls nothing but dispose on a     *)
(* disposed player.                                                        *)
(***************************************************************************)

World ==
    [p |-> player, u |-> units, l |-> loads, n |-> issued, c |-> called,
     e |-> reported, threw |-> FALSE]

Did(w, op, a, b) ==
    /\ player' = w.p
    /\ units' = w.u
    /\ loads' = w.l
    /\ issued' = w.n
    /\ called' = w.c
    /\ reported' = w.e
    /\ threw' = w.threw
    /\ last' = [op |-> op, a |-> a, b |-> b, pre |-> player.state]

Becomes(w, op, a) == Did(w, op, a, 0)

Disposed == player.output = "null"

Construct(Urls) ==
    \E url \in Urls \cup {Undef}, callback \in BOOLEAN :
        LET w == Player(url, callback)
        IN  /\ player = w.p
            /\ units = w.u
            /\ loads = w.l
            /\ issued = w.n
            /\ called = w.c
            /\ reported = w.e
            /\ threw = w.threw
            /\ last = [op |-> "new", a |-> 0, b |-> 0, pre |-> STOPPED]

Load ==
    /\ ~Disposed
    /\ issued < MaxLoads
    /\ \E url \in Buffers, callback \in BOOLEAN :
           Becomes(load(World, url, callback), "load", IF callback THEN 1 ELSE 0)

SetBufferTo(Bs) ==
    /\ ~Disposed
    /\ \E b \in Bs : Becomes(setBuffer(World, b), "setBuffer", 0)

StartWith(Offsets, Durations) ==
    /\ ~Disposed
    /\ \E offset \in Offsets, duration \in Durations :
           LET w == start(World, offset, duration)
           IN  /\ Len(w.u) <= MaxUnits
               /\ Did(w, "start", offset, duration)

LoopWith(LoopStarts, LoopEnds, Offsets, Durations) ==
    /\ ~Disposed
    /\ \E loopStart \in LoopStarts, loopEnd \in LoopEnds,
          offset \in Offsets, duration \in Durations :
           LET w == loop(World, loopStart, loopEnd, offset, duration)
           IN  /\ Len(w.u) <= MaxUnits
               /\ Becomes(w, "loop", 0)

Stop ==
    /\ ~Disposed
    /\ \E time \in TimeArgs : Becomes(stop(World, time), "stop", time)

SetPlaybackRate ==
    /\ ~Disposed
    /\ \E rate \in Rates, rampTime \in RampArgs :
           Did(setPlaybackRate(World, rate, rampTime), "setPlaybackRate",
               rate, rampTime)

\* player.retrigger = b
SetRetrigger ==
    /\ ~Disposed
    /\ \E b \in BOOLEAN :
           Becomes([World EXCEPT !.p.retrigger = b], "retrigger", 0)

Dispose ==
    \E w \in {dispose(World)} : Becomes(w, "dispose", 0)

\* the XMLHttpRequest of the r-th load in flight completes
RequestOnload ==
    \E r \in 1..Len(loads) :
        /\ loads[r].phase = "sent"
        /\ Becomes(onload(World, r), "onload", 0)

\* the decode of the r-th load in flight succeeds
DecodeSuccess ==
    \E r \in 1..Len(loads) :
        /\ loads[r].phase = "decoding"
        /\ Did(decoded(World, r), "decoded", r, player._buffer)

\* the XMLHttpRequest of the r-th load in flight fails (network error)
RequestError ==
    \E r \in 1..Len(loads) :
        /\ loads[r].phase = "sent"
        /\ Becomes(onerror(World, r), "onerror", r)

\* the decode of the r-th load in flight fails (not audio, or an error page)
DecodeError ==
    \E r \in 1..Len(loads) :
        /\ loads[r].phase = "decoding"
        /\ Becomes(decodeError(World, r), "decodeError", r)

\* the engine fires unit i's one-time ended event
UnitEnded(i) ==
    /\ i \in 1..Len(units)
    /\ units[i].started
    /\ ~units[i].ended
    /\ LET e == [World EXCEPT !.u[i].ended = TRUE]
       IN  Becomes(IF units[i].handler THEN _onended(e, i) ELSE e, "ended", i)

Ended == \E i \in 1..MaxUnits : UnitEnded(i)

----------------------------------------------------------------------------
(* The transport *)

Init == Construct(OneBuffer)

SetBuffer == SetBufferTo(OneBuffer)

\* start() and loop() with every argument omitted
Start == StartWith({Undef}, {Undef})

Loop == LoopWith({Undef}, {Undef}, {Undef}, {Undef})

Next ==
    \/ SetBuffer
    \/ Start
    \/ Loop
    \/ Stop
    \/ SetRetrigger
    \/ Dispose
    \/ RequestOnload
    \/ DecodeSuccess
    \/ Ended

Spec == Init /\ [][Next]_vars

\* the transport with retrigger left at its default, and the engine
\* delivering the ended event of every unit it has started
LiveNext ==
    \/ SetBuffer
    \/ Start
    \/ Loop
    \/ Stop
    \/ Dispose
    \/ RequestOnload
    \/ DecodeSuccess
    \/ Ended

LiveSpec ==
    Init /\ [][LiveNext]_vars /\ \A i \in 1..MaxUnits : WF_vars(UnitEnded(i))

----------------------------------------------------------------------------
(* The acquisition *)

LoadInit == Construct(Buffers)

LoadNext ==
    \/ Load
    \/ SetBufferTo(Buffers)
    \/ RequestOnload
    \/ DecodeSuccess
    \/ RequestError
    \/ DecodeError
    \/ Dispose

LoadSpec == LoadInit /\ [][LoadNext]_vars

----------------------------------------------------------------------------
(* The scheduling *)

SchedInit == Construct({})

\* the first episode of a player: its unit is scheduled by start or loop and
\* then adjusted by setPlaybackRate and by further start and loop calls
SchedNext ==
    \/ SetBufferTo(Buffers)
    \/ StartWith(OffsetArgs, DurationArgs)
    \/ LoopWith(LoopStartArgs, LoopEndArgs, OffsetArgs, DurationArgs)
    \/ SetPlaybackRate

SchedSpec == SchedInit /\ [][SchedNext]_vars

----------------------------------------------------------------------------
(* The player that loads nothing.  No request is in flight, so dispose     *)
(* leaves it without a buffer for good, whatever state it was in.          *)

FreedInit == Construct({})

\* start() on a disposed player
StartFreed ==
    /\ Disposed
    /\ Did(start(World, Undef, Undef), "start", Undef, Undef)

\* loop() on a disposed player
LoopFreed ==
    /\ Disposed
    /\ Becomes(loop(World, Undef, Undef, Undef, Undef), "loop", 0)

FreedNext ==
    \/ SetBuffer
    \/ Start
    \/ Loop
    \/ Stop
    \/ SetRetrigger
    \/ Dispose
    \/ Ended
    \/ StartFreed
    \/ LoopFreed

FreedSpec == FreedInit /\ [][FreedNext]_vars

----------------------------------------------------------------------------
(* Successive episodes of a player whose retrigger is left false *)

EpisodeStart ==
    LET w == start(World, Undef, Undef)
    IN  /\ Len(w.u) <= MaxEpisodes
        /\ Did(w, "start", Undef, Undef)

EpisodeLoop ==
    LET w == loop(World, Undef, Undef, Undef, Undef)
    IN  /\ Len(w.u) <= MaxEpisodes
        /\ Becomes(w, "loop", 0)

EpisodeEnded == \E i \in 1..MaxEpisodes : UnitEnded(i)

EpisodeNext ==
    \/ SetBuffer
    \/ EpisodeStart
    \/ EpisodeLoop
    \/ Stop
    \/ EpisodeEnded

EpisodeSpec == FreedInit /\ [][EpisodeNext]_vars

\* the engine fires unit i's ended event on a player whose onended observer
\* calls start()
EndedRestarts ==
    \E i \in 1..Len(units) :
        /\ units[i].started
        /\ ~units[i].ended
        /\ units[i].handler
        /\ LET w == onendedRestarts([World EXCEPT !.u[i].ended = TRUE], i)
           IN  /\ Len(w.u) <= MaxEpisodes
               /\ Becomes(w, "endedRestarts", i)

ObserverNext ==
    \/ EpisodeNext
    \/ EndedRestarts

ObserverSpec == FreedInit /\ [][ObserverNext]_vars

----------------------------------------------------------------------------
(* Properties *)

Created(i) == i <= Len(units)

\* the number of times the onended observer was invoked
OnendedCalls == LET Sum[i \in 0..Len(units)] ==
                        IF i = 0 THEN 0 ELSE Sum[i - 1] + units[i].notified
                IN  Sum[Len(units)]

EndedUnits == {i \in 1..Len(units) : units[i].ended}

\* C1: on a player that was not disposed, the unit reference is non-null
\* exactly when state is STARTED.
C1_UnitIffStarted ==
    ~Disposed => ((player._source # Null) <=> (player.state = STARTED))

\* C2: with retrigger false and a buffer loaded, a start call made while
\* STARTED changes neither the player (state, unit reference) nor any unit,
\* and creates none.
C2_StartWhileStartedIsNoOp ==
    [][(/\ last'.op = "start"
        /\ player.state = STARTED
        /\ ~player.retrigger
        /\ player._buffer # Null)
       => (player' = player /\ units' = units)]_vars

C2_Witness ==
    /\ last.op = "start"
    /\ last.pre = STARTED
    /\ ~player.retrigger
    /\ player._buffer # Null
    /\ player.state = STARTED
    /\ Len(units) = 1
    /\ player._source = 1

\* C3: with retrigger true and a buffer loaded, a start call made while
\* STARTED creates exactly one more unit, which the unit reference then
\* designates, and leaves every earlier unit as it was: neither stopped nor
\* disconnected.
C3_RetriggerCreatesSecondUnit ==
    [][(/\ last'.op = "start"
        /\ player.state = STARTED
        /\ player.retrigger
        /\ player._buffer # Null)
       => (/\ Len(units') = Len(units) + 1
           /\ player'._source = Len(units')
           /\ player'._source # player._source
           /\ player'.state = STARTED
           /\ SubSeq(units', 1, Len(units)) = units)]_vars

C3_Witness ==
    /\ last.op = "start"
    /\ last.pre = STARTED
    /\ player.retrigger
    /\ Len(units) = 2
    /\ player._source = 2
    /\ units[1].stopTime = Undef
    /\ units[1].connected
    /\ ~units[1].ended

\* C4 as stated: state is STOPPED in every state in which a unit stopped
\* without a time has not yet delivered its ended event.
C4_StoppedUntilEnded ==
    \A i \in 1..Len(units) :
        (units[i].stopTime = Now /\ ~units[i].ended) => player.state = STOPPED

\* C4 as amended: stop() without a time while STARTED sets state to STOPPED
\* within the call, before the stopped unit's ended event is delivered, and
\* state is STOPPED in every state before that delivery in which no later
\* unit has been created.
C4_StopWithoutTime ==
    /\ [][(/\ last'.op = "stop"
            /\ falsy(last'.a)
            /\ player.state = STARTED)
           => (/\ player'.state = STOPPED
               /\ units'[player._source].stopTime = Now
               /\ ~units'[player._source].ended)]_vars
    /\ [](\A i \in 1..Len(units) :
            (units[i].stopTime = Now /\ ~units[i].ended /\ i = Len(units))
                => player.state = STOPPED)

C4_Witness ==
    /\ last.op = "stop"
    /\ falsy(last.a)
    /\ last.pre = STARTED
    /\ player.state = STOPPED
    /\ player._source # Null
    /\ units[player._source].stopTime = Now
    /\ ~units[player._source].ended

\* C5: stop(futureTime) while STARTED leaves state STARTED, and with the
\* stop of the current unit scheduled, state goes from STARTED to STOPPED
\* by no step other than a further stop call or the ended event of that unit.
C5_DeferredStop ==
    [][/\ (/\ last'.op = "stop"
            /\ ~falsy(last'.a)
            /\ player.state = STARTED)
           => player'.state = STARTED
       /\ (/\ player.state = STARTED
            /\ player'.state = STOPPED
            /\ player._source # Null
            /\ units[player._source].stopTime \notin {Undef, Now}
            /\ last'.op # "stop")
           => (last'.op = "ended" /\ last'.a = player._source)]_vars

\* C6: the onended observer has been invoked exactly once for every unit whose
\* ended event was delivered, stopped or not, and never for any other: the
\* invocations number the completed episodes and never exceed the starts.
C6_OnendedOncePerEpisode ==
    /\ \A i \in 1..Len(units) :
           units[i].notified = IF units[i].ended THEN 1 ELSE 0
    /\ OnendedCalls = Cardinality(EndedUnits)
    /\ OnendedCalls <= Len(units)

C6_Witness ==
    /\ Len(units) = 2
    /\ units[1].ended /\ units[1].stopTime = Now
    /\ units[2].ended /\ units[2].stopTime = Undef
    /\ OnendedCalls = 2

\* C7: every one-shot unit that was started is eventually followed by a state
\* in which its ended event was delivered, state is STOPPED and the onended
\* observer was invoked once for it.
C7_EventuallyStopped ==
    \A i \in 1..MaxUnits :
        (Created(i) /\ ~units[i].loop /\ ~units[i].ended)
            ~> (/\ Created(i)
                /\ units[i].ended
                /\ units[i].notified = 1
                /\ player.state = STOPPED)

C7_Witness ==
    /\ last.op = "ended"
    /\ Len(units) = 1
    /\ ~units[1].loop
    /\ units[1].stopTime = Undef
    /\ units[1].ended
    /\ units[1].notified = 1
    /\ player.state = STOPPED

\* C8: at most one request of the player is in flight.
C8_AtMostOneInFlight == Len(loads) <= 1

\* C9: a load call made while a buffer is held issues no request, leaves the
\* player (buffer, duration) unchanged and invokes the callback exactly once
\* if one was supplied.
C9_LoadWhenLoaded ==
    [][(last'.op = "load" /\ player._buffer # Null)
       => (/\ loads' = loads
           /\ player' = player
           /\ called' = called + last'.a)]_vars

C9_Witness ==
    /\ last.op = "load"
    /\ last.a = 1
    /\ player._buffer # Null
    /\ called >= 1

\* C10: dispose() on a disposed player does not throw and leaves the player
\* and the units as they were.
C10_DisposeIdempotent ==
    [][(last'.op = "dispose" /\ Disposed)
       => (~threw' /\ player' = player /\ units' = units)]_vars

\* C11: on a disposed player the unit reference and the buffer reference are
\* null, in the state dispose leaves and in every later one, whatever request,
\* decode or ended event is delivered afterwards.
C11_DisposeTerminal ==
    Disposed => (player._source = Null /\ player._buffer = Null)

\* C12: a start or a loop called while no buffer is held does nothing: it
\* does not throw, and it leaves the state, the unit reference, every other
\* field of the player and the units as they were, whatever the state and
\* retrigger are.
C12_NoBufferNoOp ==
    [][(last'.op \in {"start", "loop"} /\ player._buffer = Null)
       => (player' = player /\ units' = units /\ ~threw')]_vars

C12_Witness ==
    /\ last.op \in {"start", "loop"}
    /\ player._buffer = Null
    /\ player.state = STARTED
    /\ player.retrigger

\* C13: setPlaybackRate(rate) called without a rampTime while the player
\* refers to a unit sets that unit's playback rate to rate within the call,
\* and rate is the rate the player keeps for later units.
C13_RateWithoutRamp ==
    [][(/\ last'.op = "setPlaybackRate"
        /\ last'.b = Undef
        /\ player._source # Null)
       => (/\ units'[player._source].playbackRate = last'.a
           /\ player'._playbackRate = last'.a)]_vars

\* C14: when the request or the decode of a load fails, the failure is handed
\* to the caller as an error, the load callback is not invoked, and the
\* player is left as it was, without the buffer the load was to bring.
C14_FailureReported ==
    [][(last'.op \in {"onerror", "decodeError"})
       => (/\ reported' = reported + 1
           /\ called' = called
           /\ player' = player)]_vars

\* C15: an accepted start with offset o inside the held buffer B and no
\* duration schedules the new unit on B from offset o for B.duration - o;
\* with the offset omitted as well, from 0 for B.duration.
C15_DefaultDuration ==
    [][(/\ last'.op = "start"
        /\ Len(units') = Len(units) + 1
        /\ last'.b = Undef)
       => LET o == IF last'.a = Undef THEN 0 ELSE last'.a
              unit == units'[Len(units')]
          IN  /\ unit.started
              /\ unit.buffer = player._buffer
              /\ unit.offset = o
              /\ unit.duration = BufferDuration(player._buffer) - o]_vars

\* a start with offset 1 and no duration was accepted on the longer buffer
C15_Witness ==
    /\ last.op = "start"
    /\ last.a = 1 /\ last.b = Undef
    /\ player._source # Null
    /\ units[player._source].buffer = 2
    /\ units[player._source].duration = 2

\* C17: the ended event of an earlier unit does not reset the state: while
\* the unit created last has not ended and no immediate stop was called since
\* it was created, state is STARTED.
C17_LatestUnitKeepsStarted ==
    Len(units) > 0 =>
        LET latest == units[Len(units)]
        IN  (~latest.ended /\ latest.stopTime # Now) => player.state = STARTED

\* a unit the engine is playing: started, never asked to stop, not ended
Playing == {i \in 1..Len(units) : /\ units[i].started
                                  /\ units[i].stopTime = Undef
                                  /\ ~units[i].ended}

\* C16: with retrigger left false, at most one unit is playing at any time,
\* whatever the interleaving of start, loop, stop and ended events.
C16_AtMostOnePlaying ==
    Cardinality(Playing) <= 1

\* C20: when the onended observer is invoked the state is already STOPPED, so
\* the start() an observer calls on a player that holds a buffer is accepted
\* with retrigger false: it creates a unit and leaves the state STARTED.
C20_ObserverCanRestart ==
    [][(/\ last'.op = "endedRestarts"
        /\ player._buffer # Null
        /\ ~player.retrigger)
       => (/\ units'[last'.a].notified = units[last'.a].notified + 1
           /\ Len(units') = Len(units) + 1
           /\ player'._source = Len(units')
           /\ player'.state = STARTED)]_vars

\* the unit ended while the state was STARTED, and its observer restarted
C20_Witness ==
    /\ last.op = "endedRestarts"
    /\ last.pre = STARTED
    /\ ~player.retrigger
    /\ units[last.a].notified = 1
    /\ player._source = Len(units)
    /\ player.state = STARTED

\* C18: a loop called while state is STARTED, retrigger is false and a buffer
\* is held does nothing: it creates no unit and leaves the loop flag,
\* loopStart and loopEnd of the playing unit as they were.
C18_LoopWhileStartedIsNoOp ==
    [][(/\ last'.op = "loop"
        /\ player.state = STARTED
        /\ ~player.retrigger
        /\ player._buffer # Null)
       => (player' = player /\ units' = units)]_vars

\* C19: setBuffer does not cancel a load in flight: the requests stay as they
\* are, and when the decode of a request completes the decoded buffer and its
\* duration replace whatever buffer is held, and the request's callback, if
\* one was given, is invoked.
C19_PendingLoadOverwrites ==
    [][/\ last'.op = "setBuffer" => loads' = loads
       /\ last'.op = "decoded" =>
              LET req == loads[last'.a]
              IN  /\ player'._buffer = req.url
                  /\ player'.duration = BufferDuration(req.url)
                  /\ called' = called + (IF req.callback THEN 1 ELSE 0)]_vars

\* the one load issued has replaced buffer 1, set while it was in flight, by
\* buffer 2, and its callback was invoked
C19_Witness ==
    /\ last.op = "decoded"
    /\ last.b = 1
    /\ issued = 1
    /\ called = 1
    /\ player._buffer = 2
    /\ player.duration = BufferDuration(2)

====
